---- MODULE Spec2Model ----
(***************************************************************************)
(* Grbl on the LM4F120H5QR: the step generator (stepper.c), the main loop  *)
(* (main.c) and the planner ring / runtime protocol they are driven by.    *)
(*                                                                         *)
(* The step ISR (timer1_compare_interrupt) runs to completion with respect *)
(* to the foreground (the sei() of the AVR original is commented out), so  *)
(* one firing is one action.  The foreground is a single thread; its       *)
(* position inside plan_buffer_line is kept in fg.                         *)
(***************************************************************************)
EXTENDS Integers, Sequences, FiniteSets, TLC

\* ------------------------------------------------------------------ bounds
BLOCK_BUFFER_SIZE == 3     \* slots of the ring (one is always left free)
MaxBlocks == 3             \* motion lines the upstream producer sends
MaxHolds == 1              \* feed-hold commands the host sends
MaxResets == 1             \* soft-reset commands the host sends
MaxReports == 1            \* status reports the host asks for
MaxLines == 2              \* lines the protocol answers

\* ------------------------------------------------------- program constants
F_CPU == 80000000
CYCLES_PER_ACCELERATION_TICK == 320000
MINIMUM_STEPS_PER_MINUTE == 800
NULL == 0

STATE_INIT == "Init"
STATE_IDLE == "Idle"
STATE_QUEUED == "Queued"
STATE_CYCLE == "Cycle"
STATE_HOLD == "Hold"
STATE_ALARM == "Alarm"

EXEC_CYCLE_START == "cycle_start"
EXEC_CYCLE_STOP == "cycle_stop"
EXEC_FEED_HOLD == "feed_hold"
EXEC_RESET == "reset"

X_AXIS == "X"
Y_AXIS == "Y"
Z_AXIS == "Z"
N_AXIS == {X_AXIS, Y_AXIS, Z_AXIS}

X_STEP_BIT == "X_STEP"
Y_STEP_BIT == "Y_STEP"
Z_STEP_BIT == "Z_STEP"
X_DIRECTION_BIT == "X_DIR"
Y_DIRECTION_BIT == "Y_DIR"
Z_DIRECTION_BIT == "Z_DIR"
STEP_MASK == {X_STEP_BIT, Y_STEP_BIT, Z_STEP_BIT}
DIRECTION_MASK == {X_DIRECTION_BIT, Y_DIRECTION_BIT, Z_DIRECTION_BIT}

\* a ^ b on bit sets
BitXor(a, b) == (a \ b) \cup (b \ a)

\* ----------------------------------------------------------------- inputs
\* Planned blocks the upstream producer may enqueue.  Each is what the
\* planner computes from rest-to-rest or junction speeds at uniform
\* acceleration A = rate_delta * 250 ticks/s * 60 (steps/min^2):
\* accelerate_until = ceil((nominal^2 - initial^2) / 2A), the deceleration
\* takes floor((nominal^2 - final^2) / 2A) step events, and a block too
\* short for both has accelerate_until = decelerate_after.
\*  SlowBlock  24 mm/min at 250 steps/mm and 10 mm/s^2, from rest to rest:
\*             a trapezoid whose step events are further apart than the
\*             acceleration ticks
\*  FastBlock  a block too short to reach its nominal rate, entered at speed
\*             and accelerating throughout, with several step events per
\*             acceleration tick, moving X and Z backwards
SlowBlock ==
  [steps_x |-> 5, steps_y |-> 2, steps_z |-> 0, direction_bits |-> {},
   step_event_count |-> 5, nominal_rate |-> 6000, initial_rate |-> 0,
   final_rate |-> 0, rate_delta |-> 600, accelerate_until |-> 2,
   decelerate_after |-> 3]
FastBlock ==
  [steps_x |-> 1, steps_y |-> 4, steps_z |-> 2,
   direction_bits |-> {X_DIRECTION_BIT, Z_DIRECTION_BIT},
   step_event_count |-> 4, nominal_rate |-> 60000, initial_rate |-> 30000,
   final_rate |-> 60000, rate_delta |-> 20000, accelerate_until |-> 4,
   decelerate_after |-> 4]
BlockSet == {SlowBlock, FastBlock}

\* More planned profiles, for the runs without feed hold:
\*  AccelBlock     entered at half its nominal rate, accelerating over
\*                 ceil(4.5) = 5 step events, then cruising to its end
\*  DecelBlock     entered at its nominal rate, decelerating to half of it
\*                 over its last floor(4.5) = 4 step events
\*  TriangleBlock  from rest to rest, too short to reach its nominal rate
AccelBlock ==
  [steps_x |-> 6, steps_y |-> 3, steps_z |-> 0, direction_bits |-> {},
   step_event_count |-> 6, nominal_rate |-> 60000, initial_rate |-> 30000,
   final_rate |-> 60000, rate_delta |-> 20000, accelerate_until |-> 5,
   decelerate_after |-> 6]
DecelBlock ==
  [steps_x |-> 0, steps_y |-> 8, steps_z |-> 1,
   direction_bits |-> {Y_DIRECTION_BIT},
   step_event_count |-> 8, nominal_rate |-> 60000, initial_rate |-> 60000,
   final_rate |-> 30000, rate_delta |-> 20000, accelerate_until |-> 0,
   decelerate_after |-> 4]
TriangleBlock ==
  [steps_x |-> 2, steps_y |-> 0, steps_z |-> 4,
   direction_bits |-> {Z_DIRECTION_BIT},
   step_event_count |-> 4, nominal_rate |-> 60000, initial_rate |-> 0,
   final_rate |-> 0, rate_delta |-> 20000, accelerate_until |-> 2,
   decelerate_after |-> 2]
ProfileSet == {SlowBlock, AccelBlock, DecelBlock, TriangleBlock}

\* settings.invert_mask, settings.flags and settings.stepper_idle_lock_time
\* as loaded by settings_init(); a lock time of 255 keeps the steppers
\* enabled
SettingsSet ==
  { [invert_mask |-> {X_STEP_BIT, Y_DIRECTION_BIT}, auto_start |-> TRUE,
     homing_enable |-> FALSE, stepper_idle_lock_time |-> 25],
    [invert_mask |-> {}, auto_start |-> FALSE, homing_enable |-> TRUE,
     stepper_idle_lock_time |-> 255] }

\* block_t: an empty (zeroed) slot of the ring
EmptyBlock ==
  [steps_x |-> 0, steps_y |-> 0, steps_z |-> 0, direction_bits |-> {},
   step_event_count |-> 0, nominal_rate |-> 0, initial_rate |-> 0,
   final_rate |-> 0, rate_delta |-> 0, accelerate_until |-> 0,
   decelerate_after |-> 0, id |-> 0, complete |-> FALSE]

\* stepper_t after memset(&st, 0, sizeof(st))
ZeroStepper ==
  [counter_x |-> 0, counter_y |-> 0, counter_z |-> 0, event_count |-> 0,
   step_events_completed |-> 0, cycles_per_step_event |-> 0,
   trapezoid_tick_cycle_counter |-> 0, trapezoid_adjusted_rate |-> 0,
   min_safe_rate |-> 0]

VARIABLES
  sys,            \* system_t: state, execute, position, abort, auto_start
  settings,       \* settings_t: invert_mask, flags
  st,             \* stepper_t
  current_block,  \* slot of the block being traced, or NULL
  out_bits,       \* the next stepping bits to be output
  busy,           \* the step ISR's reentrancy latch
  timer1_enabled, \* TimerEnable/TimerDisable(TIMER1_BASE, TIMER_A)
  block_buffer,   \* the ring's slots, 1..BLOCK_BUFFER_SIZE
  block_buffer_head,
  block_buffer_tail,
  fg,             \* where the foreground thread is
  pending,        \* the block plan_buffer_line is writing
  pins,           \* levels of the step and direction pins of STEPPING_PORT
  timer2_enabled, \* the one-shot pulse-reset timer is armed
  isr,            \* invocations of the step ISR in progress
  report,         \* report_realtime_status: its copy of sys.position
  hist            \* history of the run, read only by the properties

vars == <<sys, settings, st, current_block, out_bits, busy, timer1_enabled,
          block_buffer, block_buffer_head, block_buffer_tail, fg, pending,
          pins, timer2_enabled, isr, report, hist>>

\* what the foreground's motion and runtime operations never touch
hw == <<pins, timer2_enabled, isr, report>>

\* ---------------------------------------------------------------- planner
\* The ring primitives of the planner, as the data model describes them:
\* head is the next free slot, tail the executing slot, head = tail empty,
\* next_head = tail full.
next_block_index(i) == IF i = BLOCK_BUFFER_SIZE THEN 1 ELSE i + 1

plan_get_current_block(head, tail) == IF head = tail THEN NULL ELSE tail

plan_discard_current_block(head, tail) ==
  IF head # tail THEN next_block_index(tail) ELSE tail

\* mutant: the ring never reports itself full
plan_check_full_buffer_never(head, tail) == FALSE

plan_check_full_buffer(head, tail) == next_block_index(head) = tail

\* plan_cycle_reinitialize(step_events_remaining): the partially executed
\* block at the tail is re-planned from a standstill over its remaining step
\* events; the step counts and rate_delta stay as planned.  From rest to
\* rest over the remaining events the new profile is a triangle.
ReplanProfiles(remaining) ==
  { [accelerate_until |-> (remaining + 1) \div 2,
     decelerate_after |-> (remaining + 1) \div 2] }

plan_cycle_reinitialize(blk, remaining, prof) ==
  [blk EXCEPT !.step_event_count = remaining,
              !.initial_rate = 0,
              !.accelerate_until = prof.accelerate_until,
              !.decelerate_after = prof.decelerate_after]

\* ---------------------------------------------------------------- stepper
\* mutant: going idle leaves the step timer running
st_go_idle_running(lock_time) ==
  [timer1_enabled |-> TRUE, delay_ms |-> lock_time # 255]

\* st_go_idle: the step timer is disabled; unless the lock time is 0xff the
\* caller is held in delay_ms(settings.stepper_idle_lock_time)
st_go_idle(lock_time) ==
  [timer1_enabled |-> FALSE, delay_ms |-> lock_time # 255]

\* config_step_timer: loads the step timer and returns the cycles it was given
config_step_timer(cycles) == cycles

\* set_step_events_per_minute: the value stored in st.cycles_per_step_event
set_step_events_per_minute(steps_per_minute) ==
  LET spm == IF steps_per_minute < MINIMUM_STEPS_PER_MINUTE
             THEN MINIMUM_STEPS_PER_MINUTE ELSE steps_per_minute
  IN config_step_timer((F_CPU \div spm) * 60)

\* st.trapezoid_adjusted_rate = rate; set_step_events_per_minute(rate)
SetRate(s, rate) ==
  [s EXCEPT !.trapezoid_adjusted_rate = rate,
            !.cycles_per_step_event = set_step_events_per_minute(rate)]

\* trapezoid_tick_cycle_counter is a uint32_t.  It is kept here as its two's
\* complement representative (v for v < 2^31, v - 2^32 above), so that +
\* and - are the machine's modulo 2^32 operations; an unsigned v > k with a
\* small k is then "negative, or greater than k".
UGreater(v, k) == v < 0 \/ v > k

iterate_trapezoid_cycle_counter(s) ==
  LET c == s.trapezoid_tick_cycle_counter + s.cycles_per_step_event IN
  IF UGreater(c, CYCLES_PER_ACCELERATION_TICK)
  THEN [st |-> [s EXCEPT !.trapezoid_tick_cycle_counter =
                           c - CYCLES_PER_ACCELERATION_TICK],
        fired |-> TRUE]
  ELSE [st |-> [s EXCEPT !.trapezoid_tick_cycle_counter = c],
        fired |-> FALSE]

\* mutant: the accumulator is reduced by the axis' steps, not by event_count
bresenham_axis_steps(counter, steps, event_count) ==
  LET c == counter + steps IN
  IF c > 0 THEN [counter |-> c - steps, step |-> TRUE]
           ELSE [counter |-> c, step |-> FALSE]

\* One axis of the bresenham tracer: counter += steps; if (counter > 0)
\* { step; counter -= event_count }
bresenham_axis(counter, steps, event_count) ==
  LET c == counter + steps IN
  IF c > 0 THEN [counter |-> c - event_count, step |-> TRUE]
           ELSE [counter |-> c, step |-> FALSE]

\* mutant: the direction bit is ignored, the position always counts up
step_position_up(p, bits, direction_bit) == p + 1

\* if (out_bits & (1<<DIRECTION_BIT)) sys.position[axis]--; else ++
step_position(p, bits, direction_bit) ==
  IF direction_bit \in bits THEN p - 1 ELSE p + 1

\* Lines 207-224: pop the ring tail and initialise the tracer, or go idle
\* when the ring is empty.
IsrPopBlock(s, state, head, tail, buf) ==
  LET got == plan_get_current_block(head, tail) IN
  IF got # NULL
  THEN
    LET blk == buf[got]
        s1 == IF state = STATE_CYCLE
              THEN [SetRate(s, blk.initial_rate) EXCEPT
                      !.trapezoid_tick_cycle_counter =
                         CYCLES_PER_ACCELERATION_TICK \div 2]
              ELSE s
        c0 == 0 - (blk.step_event_count \div 2)
    IN [cb |-> got,
        st |-> [s1 EXCEPT
                  !.min_safe_rate = blk.rate_delta + (blk.rate_delta \div 2),
                  !.counter_x = c0, !.counter_y = c0, !.counter_z = c0,
                  !.event_count = blk.step_event_count,
                  !.step_events_completed = 0],
        idle |-> FALSE, popped |-> TRUE]
  ELSE [cb |-> NULL, st |-> s, idle |-> TRUE, popped |-> FALSE]

\* mutant: a block is popped at every firing, a current block or not
IsrPop_always(cb, s, state, head, tail, buf) ==
  IsrPopBlock(s, state, head, tail, buf)

\* Lines 205-225: if (current_block == NULL) pop, else keep the block.
IsrPop(cb, s, state, head, tail, buf) ==
  IF cb # NULL
  THEN [cb |-> cb, st |-> s, idle |-> FALSE, popped |-> FALSE]
  ELSE IsrPopBlock(s, state, head, tail, buf)

\* mutant: a step event is counted twice
step_event_completed_twice(n) == n + 2

\* Line 252: st.step_events_completed++
step_event_completed(n) == n + 1

\* Lines 229-252: one step event of the bresenham line tracer.
IsrStep(s, blk, position) ==
  LET bx == bresenham_axis(s.counter_x, blk.steps_x, s.event_count)
      by == bresenham_axis(s.counter_y, blk.steps_y, s.event_count)
      bz == bresenham_axis(s.counter_z, blk.steps_z, s.event_count)
      bits == blk.direction_bits
                \cup (IF bx.step THEN {X_STEP_BIT} ELSE {})
                \cup (IF by.step THEN {Y_STEP_BIT} ELSE {})
                \cup (IF bz.step THEN {Z_STEP_BIT} ELSE {})
  IN [st |-> [s EXCEPT !.counter_x = bx.counter, !.counter_y = by.counter,
                       !.counter_z = bz.counter,
                       !.step_events_completed =
                          step_event_completed(s.step_events_completed)],
      out_bits |-> bits,
      position |->
        [a \in N_AXIS |->
           IF a = X_AXIS /\ bx.step
             THEN step_position(position[a], bits, X_DIRECTION_BIT)
           ELSE IF a = Y_AXIS /\ by.step
             THEN step_position(position[a], bits, Y_DIRECTION_BIT)
           ELSE IF a = Z_AXIS /\ bz.step
             THEN step_position(position[a], bits, Z_DIRECTION_BIT)
           ELSE position[a]]]

\* mutant: the feed hold raises cycle_stop without stopping the steppers
TrapezoidHold_running(s, blk) ==
  LET it == iterate_trapezoid_cycle_counter(s) IN
  IF it.fired
  THEN IF it.st.trapezoid_adjusted_rate <= blk.rate_delta
       THEN [st |-> it.st, idle |-> FALSE, stop |-> TRUE, tick |-> TRUE]
       ELSE [st |-> SetRate(it.st,
                      it.st.trapezoid_adjusted_rate - blk.rate_delta),
             idle |-> FALSE, stop |-> FALSE, tick |-> TRUE]
  ELSE [st |-> it.st, idle |-> FALSE, stop |-> FALSE, tick |-> FALSE]

\* mutant: the feed hold stops the steppers without raising cycle_stop
TrapezoidHold_silent(s, blk) ==
  LET it == iterate_trapezoid_cycle_counter(s) IN
  IF it.fired
  THEN IF it.st.trapezoid_adjusted_rate <= blk.rate_delta
       THEN [st |-> it.st, idle |-> TRUE, stop |-> FALSE, tick |-> TRUE]
       ELSE [st |-> SetRate(it.st,
                      it.st.trapezoid_adjusted_rate - blk.rate_delta),
             idle |-> FALSE, stop |-> FALSE, tick |-> TRUE]
  ELSE [st |-> it.st, idle |-> FALSE, stop |-> FALSE, tick |-> FALSE]

\* Lines 265-277: an acceleration tick during a feed hold; with the
\* deceleration complete, st_go_idle() and cycle_stop is raised.
TrapezoidHold(s, blk) ==
  LET it == iterate_trapezoid_cycle_counter(s) IN
  IF it.fired
  THEN IF it.st.trapezoid_adjusted_rate <= blk.rate_delta
       THEN [st |-> it.st, idle |-> TRUE, stop |-> TRUE, tick |-> TRUE]
       ELSE [st |-> SetRate(it.st,
                      it.st.trapezoid_adjusted_rate - blk.rate_delta),
             idle |-> FALSE, stop |-> FALSE, tick |-> TRUE]
  ELSE [st |-> it.st, idle |-> FALSE, stop |-> FALSE, tick |-> FALSE]

\* mutant: the acceleration is not clamped to the nominal rate
TrapezoidAccelerate_unclamped(s, blk) ==
  LET it == iterate_trapezoid_cycle_counter(s) IN
  IF it.fired
  THEN [st |-> SetRate(it.st, it.st.trapezoid_adjusted_rate + blk.rate_delta),
        idle |-> FALSE, stop |-> FALSE, tick |-> TRUE]
  ELSE [st |-> it.st, idle |-> FALSE, stop |-> FALSE, tick |-> FALSE]

\* Lines 287-296: acceleration.
TrapezoidAccelerate(s, blk) ==
  LET it == iterate_trapezoid_cycle_counter(s) IN
  IF it.fired
  THEN LET r == it.st.trapezoid_adjusted_rate + blk.rate_delta
           r1 == IF r >= blk.nominal_rate THEN blk.nominal_rate ELSE r
       IN [st |-> SetRate(it.st, r1), idle |-> FALSE, stop |-> FALSE,
           tick |-> TRUE]
  ELSE [st |-> it.st, idle |-> FALSE, stop |-> FALSE, tick |-> FALSE]

\* Lines 297-330: deceleration.
TrapezoidDecelerate(s, blk) ==
  IF s.step_events_completed = blk.decelerate_after
  THEN [st |-> [s EXCEPT !.trapezoid_tick_cycle_counter =
                  IF s.trapezoid_adjusted_rate = blk.nominal_rate
                  THEN CYCLES_PER_ACCELERATION_TICK \div 2
                  ELSE CYCLES_PER_ACCELERATION_TICK
                         - s.trapezoid_tick_cycle_counter],
        idle |-> FALSE, stop |-> FALSE, tick |-> FALSE]
  ELSE
    LET it == iterate_trapezoid_cycle_counter(s) IN
    IF it.fired
    THEN LET r == IF it.st.trapezoid_adjusted_rate > it.st.min_safe_rate
                  THEN it.st.trapezoid_adjusted_rate - blk.rate_delta
                  ELSE it.st.trapezoid_adjusted_rate \div 2
             r1 == IF r < blk.final_rate THEN blk.final_rate ELSE r
         IN [st |-> SetRate(it.st, r1), idle |-> FALSE, stop |-> FALSE,
           tick |-> TRUE]
    ELSE [st |-> it.st, idle |-> FALSE, stop |-> FALSE, tick |-> FALSE]

\* Lines 331-337: cruise.
TrapezoidCruise(s, blk) ==
  [st |-> IF s.trapezoid_adjusted_rate # blk.nominal_rate
          THEN SetRate(s, blk.nominal_rate) ELSE s,
   idle |-> FALSE, stop |-> FALSE, tick |-> FALSE]

\* mutant: a feed hold keeps following the planned profile
IsrTrapezoid_planned(s, blk, state) ==
  IF s.step_events_completed < blk.accelerate_until
    THEN TrapezoidAccelerate(s, blk)
  ELSE IF s.step_events_completed >= blk.decelerate_after
    THEN TrapezoidDecelerate(s, blk)
  ELSE TrapezoidCruise(s, blk)

\* Lines 255-338: the trapezoid generator, for a block with step events left.
IsrTrapezoid(s, blk, state) ==
  IF state = STATE_HOLD THEN TrapezoidHold(s, blk)
  ELSE IF s.step_events_completed < blk.accelerate_until
    THEN TrapezoidAccelerate(s, blk)
  ELSE IF s.step_events_completed >= blk.decelerate_after
    THEN TrapezoidDecelerate(s, blk)
  ELSE TrapezoidCruise(s, blk)

\* Line 255: the block still has step events to execute
BlockUnfinished(s, blk) == s.step_events_completed < blk.step_event_count

\* mutant: the finished block is released but not discarded from the ring
IsrBlockDone_keep_tail(head, tail) == [cb |-> NULL, tail |-> tail]

\* Lines 339-343: current_block = NULL; plan_discard_current_block()
IsrBlockDone(head, tail) ==
  [cb |-> NULL, tail |-> plan_discard_current_block(head, tail)]

\* ---------------------------------------------------------------- history
ZeroPosition == [a \in N_AXIS |-> 0]

\* the signed step count of a block on an axis
DirectionBit(a) ==
  IF a = X_AXIS THEN X_DIRECTION_BIT
  ELSE IF a = Y_AXIS THEN Y_DIRECTION_BIT ELSE Z_DIRECTION_BIT
Steps(blk, a) ==
  IF a = X_AXIS THEN blk.steps_x
  ELSE IF a = Y_AXIS THEN blk.steps_y ELSE blk.steps_z
SignedSteps(blk, a) ==
  IF DirectionBit(a) \in blk.direction_bits THEN 0 - Steps(blk, a)
  ELSE Steps(blk, a)

InitHist ==
  [committed |-> <<>>,      \* ids of the blocks committed, in order
   popped |-> <<>>,         \* ids of the blocks the step ISR obtained
   discarded |-> <<>>,      \* ids of the blocks the step ISR discarded
   partial |-> FALSE,       \* the step ISR obtained a block not fully written
   done_sum |-> ZeroPosition, \* sum of signed steps of the discarded blocks
   cur_orig |-> EmptyBlock, \* the current block as it was when popped
   cur_start |-> ZeroPosition, \* sys.position when it was popped
   cur_events |-> 0,        \* step events executed on it
   cur_held |-> FALSE,      \* a feed hold stopped it and it was resumed
   ticks |-> 0,             \* acceleration ticks in it (0, 1, 2 = two or more)
   tick_rate |-> 0,         \* adjusted rate after its last tick
   prev_tick_rate |-> 0,    \* adjusted rate after the tick before
   fh |-> <<>>,             \* sys.state since a feed hold taken mid-block
   holds |-> 0,             \* feed-hold commands received
   call_full |-> FALSE,     \* plan_buffer_line found the ring full
   call_discards |-> 0,     \* blocks discarded when it was called
   resets |-> 0,            \* soft-reset commands received
   passes |-> 0,            \* reset passes of the main loop (0, 1, 2 = more)
   dropped |-> {},          \* ids of the blocks a reset pass dropped
   startup |-> FALSE,       \* the last reset pass ran the startup script
   turned_away |-> FALSE,   \* a firing of the step timer has met busy set
   reports |-> 0,           \* status reports started
   seen |-> {},             \* values sys.position held during the report
   isr_delay |-> FALSE,     \* delay_ms has run inside the step ISR
   logical |-> {},          \* step/direction bits computed last, unmasked
   pulses |-> ZeroPosition, \* step pulses asserted on each axis's step line
   updates |-> ZeroPosition] \* +/-1 updates applied to sys.position

\* report_realtime_status is not running, nothing has been printed
NoReport ==
  [i |-> 0, current_position |-> ZeroPosition, uart |-> <<>>, lines |-> 0]

\* Status codes, by their names in report.h; STATUS_OK is the code 0, and
\* STATUS_UNLISTED stands for every value of the uint8_t argument that has
\* no case in the switch.
STATUS_OK == "STATUS_OK"
STATUS_UNLISTED == "unlisted"
StatusCodes ==
  {STATUS_OK, "STATUS_BAD_NUMBER_FORMAT", "STATUS_EXPECTED_COMMAND_LETTER",
   "STATUS_UNSUPPORTED_STATEMENT", "STATUS_ARC_RADIUS_ERROR",
   "STATUS_MODAL_GROUP_VIOLATION", "STATUS_INVALID_STATEMENT",
   "STATUS_SETTING_DISABLED", "STATUS_SETTING_VALUE_NEG",
   "STATUS_SETTING_STEP_PULSE_MIN", "STATUS_SETTING_READ_FAIL",
   "STATUS_IDLE_ERROR", "STATUS_ALARM_LOCK", STATUS_UNLISTED}

\* the end of a line on the serial port
CRLF == "\\r\\n"

\* report_status_message, lines 55-80: the switch on the status code
StatusCase(status_code) ==
  CASE status_code = "STATUS_BAD_NUMBER_FORMAT" -> <<"Bad number format">>
    [] status_code = "STATUS_EXPECTED_COMMAND_LETTER"
         -> <<"Expected command letter">>
    [] status_code = "STATUS_UNSUPPORTED_STATEMENT"
         -> <<"Unsupported statement">>
    [] status_code = "STATUS_ARC_RADIUS_ERROR" -> <<"Invalid radius">>
    [] status_code = "STATUS_MODAL_GROUP_VIOLATION"
         -> <<"Modal group violation">>
    [] status_code = "STATUS_INVALID_STATEMENT" -> <<"Invalid statement">>
    [] status_code = "STATUS_SETTING_DISABLED" -> <<"Setting disabled">>
    [] status_code = "STATUS_SETTING_VALUE_NEG" -> <<"Value < 0.0">>
    [] status_code = "STATUS_SETTING_STEP_PULSE_MIN" -> <<"Value < 3 usec">>
    [] status_code = "STATUS_SETTING_READ_FAIL"
         -> <<"EEPROM read fail. Using defaults">>
    [] status_code = "STATUS_IDLE_ERROR" -> <<"Busy or queued">>
    [] status_code = "STATUS_ALARM_LOCK" -> <<"Alarm lock">>
    [] OTHER -> <<>>

\* mutant: every line is acknowledged
report_status_message_ok(status_code) == <<"ok", CRLF>>

\* report_status_message, lines 49-83: the texts it hands to UARTprintf, the
\* line end told apart from the text before it
report_status_message(status_code) ==
  IF status_code = STATUS_OK
  THEN <<"ok", CRLF>>
  ELSE <<"error: ">> \o StatusCase(status_code) \o <<CRLF>>

\* Feedback message codes, by their names in report.h
MESSAGE_ALARM_LOCK == "MESSAGE_ALARM_LOCK"

\* report_feedback_message, lines 108-119: the switch on the message code
FeedbackCase(message_code) ==
  CASE message_code = "MESSAGE_CRITICAL_EVENT" -> <<"Reset to continue">>
    [] message_code = MESSAGE_ALARM_LOCK -> <<"'$H'|'$X' to unlock">>
    [] message_code = "MESSAGE_ALARM_UNLOCK" -> <<"Caution: Unlocked">>
    [] message_code = "MESSAGE_ENABLED" -> <<"Enabled">>
    [] message_code = "MESSAGE_DISABLED" -> <<"Disabled">>
    [] OTHER -> <<>>

\* report_feedback_message, lines 105-121: the message within brackets
report_feedback_message(message_code) ==
  <<"[">> \o FeedbackCase(message_code) \o <<"]", CRLF>>

\* the axis memcpy copies i-th, in address order
CopyAxis(i) == IF i = 1 THEN X_AXIS ELSE IF i = 2 THEN Y_AXIS ELSE Z_AXIS

\* the report is between its first and its last read of sys.position
Copying == report.i \in 1..3

\* sys.position takes a new value while the report copies it
Seen(h, position) ==
  IF Copying THEN [h EXCEPT !.seen = @ \cup {position}] ELSE h

\* sys.state changed: follow a feed-hold scenario in progress
FhNext(fh, old, new) ==
  IF new # old /\ Len(fh) \in {2, 3} THEN Append(fh, new) ELSE fh

\* ------------------------------------------------------------------- Init
\* main(), lines 72-78: settings loaded, st_init() leaves the step timer
\* disabled, sys cleared, abort latched, state Init.
Init ==
  /\ settings \in SettingsSet
  /\ sys = [state |-> STATE_INIT, execute |-> {}, position |-> ZeroPosition,
            abort |-> TRUE, auto_start |-> FALSE]
  /\ st = ZeroStepper
  /\ current_block = NULL
  /\ out_bits = {}
  /\ busy = FALSE
  /\ timer1_enabled = FALSE
  /\ block_buffer = [i \in 1..BLOCK_BUFFER_SIZE |-> EmptyBlock]
  /\ block_buffer_head = 1
  /\ block_buffer_tail = 1
  /\ fg = "run"
  /\ pending = EmptyBlock
  /\ pins = settings.invert_mask
  /\ timer2_enabled = FALSE
  /\ isr = 0
  /\ report = NoReport
  /\ hist = InitHist

\* ------------------------------------------------------------ the step ISR
\* mutant: the ISR that raises an event also performs the state transition
bit_true_execute_idle(s, bit) ==
  [s EXCEPT !.execute = @ \cup {bit}, !.state = STATE_IDLE]

\* Lines 223 and 272: bit_true(sys.execute, bit)
bit_true_execute(s, bit) == [s EXCEPT !.execute = @ \cup {bit}]

\* mutant: serving one event clears every pending event
bit_false_execute_all(execute, bit) == {}

\* protocol_execute_runtime, bit_false(sys.execute, bit): one event bit is
\* cleared, in one atomic step
bit_false_execute(execute, bit) == execute \ {bit}

\* mutant: the reentrancy latch is not consulted
IsrGuard_off(b) == FALSE

\* Line 176: if (busy) { return; }
IsrGuard(b) == b

\* Lines 180-186: the direction pins, then the step pins, are written from
\* out_bits.
IsrPins(port, bits) ==
  (port \ (DIRECTION_MASK \cup STEP_MASK))
    \cup (bits \cap (DIRECTION_MASK \cup STEP_MASK))

\* The step bit of an axis
StepBit(a) ==
  IF a = X_AXIS THEN X_STEP_BIT
  ELSE IF a = Y_AXIS THEN Y_STEP_BIT ELSE Z_STEP_BIT

\* Lines 180-186 and 363: the step line of axis a is asserted when it is
\* written with the level opposite to the one timer2_overflow_interrupt
\* returns it to, settings.invert_mask
StepAsserted(bits, mask, a) == (StepBit(a) \in bits) # (StepBit(a) \in mask)

\* Lines 204-345: the body of the handler, after the pins are written and
\* busy is set. Each intermediate result is bound once, in the order the
\* handler computes it.
IsrBody ==
  /\ \E p \in {IsrPop(current_block, st, sys.state, block_buffer_head,
                      block_buffer_tail, block_buffer)} :
     \E hp \in {[hist EXCEPT
                   !.pulses = [a \in N_AXIS |->
                      IF StepAsserted(out_bits, settings.invert_mask, a)
                      THEN @[a] + 1 ELSE @[a]]]} :
     \E h0 \in {IF p.popped
                THEN [hp EXCEPT
                        !.popped = Append(@, block_buffer[p.cb].id),
                        !.partial = @ \/ ~block_buffer[p.cb].complete,
                        !.cur_orig = block_buffer[p.cb],
                        !.cur_start = sys.position,
                        !.cur_events = 0, !.cur_held = FALSE,
                        !.ticks = 0, !.tick_rate = 0, !.prev_tick_rate = 0]
                ELSE hp} :
     IF p.cb = NULL
     THEN \* lines 221-224: st_go_idle(), cycle_stop; then lines 345-346
       /\ current_block' = NULL
       /\ st' = p.st
       /\ timer1_enabled' =
            st_go_idle(settings.stepper_idle_lock_time).timer1_enabled
       /\ sys' = bit_true_execute(sys, EXEC_CYCLE_STOP)
       /\ out_bits' = BitXor(out_bits, settings.invert_mask)
       /\ hist' = [h0 EXCEPT
                     !.fh = <<>>,
                     !.isr_delay = @ \/
                       st_go_idle(settings.stepper_idle_lock_time).delay_ms]
       /\ UNCHANGED <<block_buffer, block_buffer_head, block_buffer_tail>>
     ELSE
       \E b \in {IsrStep(p.st, block_buffer[p.cb], sys.position)} :
       \E more \in {BlockUnfinished(b.st, block_buffer[p.cb])} :
       \E t \in {IF more
                 THEN IsrTrapezoid(b.st, block_buffer[p.cb], sys.state)
                 ELSE [st |-> b.st, idle |-> FALSE, stop |-> FALSE,
                       tick |-> FALSE]} :
       \E d \in {IF more THEN [cb |-> p.cb, tail |-> block_buffer_tail]
                 ELSE IsrBlockDone(block_buffer_head, block_buffer_tail)} :
       \E h1 \in {IF t.idle
                  THEN [h0 EXCEPT !.isr_delay = @ \/
                          st_go_idle(settings.stepper_idle_lock_time).delay_ms]
                  ELSE h0} :
       \E h2 \in {IF t.tick
                  THEN [h1 EXCEPT
                          !.cur_events = @ + 1,
                          !.ticks = IF @ = 0 THEN 1 ELSE 2,
                          !.prev_tick_rate = h1.tick_rate,
                          !.tick_rate = t.st.trapezoid_adjusted_rate]
                  ELSE [h1 EXCEPT !.cur_events = @ + 1]} :
       \E h3 \in {[h2 EXCEPT
                    !.logical = b.out_bits,
                    !.updates = [a \in N_AXIS |->
                       IF b.position[a] # sys.position[a]
                       THEN @[a] + 1 ELSE @[a]]]} :
       /\ current_block' = d.cb
       /\ block_buffer_tail' = d.tail
       /\ st' = t.st
       /\ timer1_enabled' =
            IF t.idle
            THEN st_go_idle(settings.stepper_idle_lock_time).timer1_enabled
            ELSE TRUE
       /\ sys' = [(IF t.stop THEN bit_true_execute(sys, EXEC_CYCLE_STOP)
                    ELSE sys) EXCEPT !.position = b.position]
       /\ out_bits' = BitXor(b.out_bits, settings.invert_mask)
       /\ hist' = Seen(IF more THEN h3
                       ELSE [h3 EXCEPT
                          !.discarded = Append(@, block_buffer[p.cb].id),
                          !.done_sum = [a \in N_AXIS |->
                             h3.done_sum[a] + SignedSteps(h3.cur_orig, a)]],
                       b.position)
       /\ UNCHANGED <<block_buffer, block_buffer_head>>
  /\ UNCHANGED <<settings, fg, pending, report>>

\* timer1_compare_interrupt, one firing that runs to completion: busy is
\* set at line 198 and cleared at line 346.
timer1_compare_interrupt ==
  /\ timer1_enabled
  /\ isr = 0
  /\ ~busy
  /\ pins' = IsrPins(pins, out_bits)
  /\ timer2_enabled' = TRUE
  /\ IsrBody
  /\ UNCHANGED <<busy, isr>>

\* The step timer fires and the handler is entered, lines 172-198: a firing
\* that finds busy set returns at once; otherwise the pins are written, the
\* pulse-reset timer is armed and busy is set.
timer1_fire ==
  /\ timer1_enabled
  /\ isr < 2
  /\ IF IsrGuard(busy)
     THEN /\ hist' = [hist EXCEPT !.turned_away = TRUE]
          /\ UNCHANGED <<pins, timer2_enabled, busy, isr>>
     ELSE /\ pins' = IsrPins(pins, out_bits)
          /\ timer2_enabled' = TRUE
          /\ busy' = TRUE
          /\ isr' = isr + 1
          /\ UNCHANGED hist
  /\ UNCHANGED <<sys, settings, st, current_block, out_bits,
                 timer1_enabled, block_buffer, block_buffer_head,
                 block_buffer_tail, fg, pending, report>>

\* The handler entered by timer1_fire runs lines 204-346 and returns.
timer1_complete ==
  /\ isr > 0
  /\ IsrBody
  /\ busy' = FALSE
  /\ isr' = isr - 1
  /\ UNCHANGED <<pins, timer2_enabled>>

\* timer2_overflow_interrupt, lines 356-366: the one-shot pulse-reset timer
\* fires and the step pins are returned to their idle level.
timer2_overflow_interrupt ==
  /\ timer2_enabled
  /\ pins' = (pins \ STEP_MASK) \cup (settings.invert_mask \cap STEP_MASK)
  /\ timer2_enabled' = FALSE
  /\ UNCHANGED <<sys, settings, st, current_block, out_bits, busy,
                 timer1_enabled, block_buffer, block_buffer_head,
                 block_buffer_tail, fg, pending, isr, report, hist>>

\* -------------------------------------------------- stepper, foreground side
\* mutant: waking up enables the timer and leaves out_bits as they were
st_wake_up_keep_bits(state, bits, timer, mask) ==
  IF state = STATE_CYCLE
  THEN [out_bits |-> bits, timer1_enabled |-> TRUE]
  ELSE [out_bits |-> bits, timer1_enabled |-> timer]

\* st_wake_up, lines 106-125: in Cycle, reset out_bits and enable the timer
st_wake_up(state, bits, timer, mask) ==
  IF state = STATE_CYCLE
  THEN [out_bits |-> BitXor({}, mask), timer1_enabled |-> TRUE]
  ELSE [out_bits |-> bits, timer1_enabled |-> timer]

\* mutant: the cycle start also acts during a feed hold
st_cycle_start_hold(state, bits, timer, mask) ==
  IF state \in {STATE_QUEUED, STATE_HOLD}
  THEN [state |-> STATE_CYCLE,
        out_bits |-> st_wake_up(STATE_CYCLE, bits, timer, mask).out_bits,
        timer1_enabled |->
          st_wake_up(STATE_CYCLE, bits, timer, mask).timer1_enabled]
  ELSE [state |-> state, out_bits |-> bits, timer1_enabled |-> timer]

\* mutant: the cycle start also acts on an idle machine
st_cycle_start_idle(state, bits, timer, mask) ==
  IF state \in {STATE_QUEUED, STATE_IDLE}
  THEN [state |-> STATE_CYCLE,
        out_bits |-> st_wake_up(STATE_CYCLE, bits, timer, mask).out_bits,
        timer1_enabled |->
          st_wake_up(STATE_CYCLE, bits, timer, mask).timer1_enabled]
  ELSE [state |-> state, out_bits |-> bits, timer1_enabled |-> timer]

\* st_cycle_start, lines 531-537: only a queued machine starts its cycle
st_cycle_start(state, bits, timer, mask) ==
  IF state = STATE_QUEUED
  THEN [state |-> STATE_CYCLE,
        out_bits |-> st_wake_up(STATE_CYCLE, bits, timer, mask).out_bits,
        timer1_enabled |->
          st_wake_up(STATE_CYCLE, bits, timer, mask).timer1_enabled]
  ELSE [state |-> state, out_bits |-> bits, timer1_enabled |-> timer]

\* mutant: the feed hold leaves the planner auto-start armed
st_feed_hold_keep_auto(state, auto_start) ==
  IF state = STATE_CYCLE
  THEN [state |-> STATE_HOLD, auto_start |-> auto_start]
  ELSE [state |-> state, auto_start |-> auto_start]

\* mutant: the feed hold marks the machine queued at once
st_feed_hold_queued(state, auto_start) ==
  IF state = STATE_CYCLE
  THEN [state |-> STATE_QUEUED, auto_start |-> FALSE]
  ELSE [state |-> state, auto_start |-> auto_start]

\* st_feed_hold, lines 540-546
st_feed_hold(state, auto_start) ==
  IF state = STATE_CYCLE
  THEN [state |-> STATE_HOLD, auto_start |-> FALSE]
  ELSE [state |-> state, auto_start |-> auto_start]

\* st_cycle_reinitialize, line 557: the step events handed to the planner
ReinitRemaining(blk, s) == blk.step_event_count - s.step_events_completed

\* mutant: step_events_completed is not restarted for the re-planned block
ReinitStepper_keep_completed(s) ==
  [SetRate(s, 0) EXCEPT
     !.trapezoid_tick_cycle_counter = CYCLES_PER_ACCELERATION_TICK \div 2]

\* st_cycle_reinitialize, lines 559-562
ReinitStepper(s) ==
  [SetRate(s, 0) EXCEPT
     !.trapezoid_tick_cycle_counter = CYCLES_PER_ACCELERATION_TICK \div 2,
     !.step_events_completed = 0]

\* mutant: st_reset without the memset of st
st_reset_stepper_keep ==
  [st EXCEPT
     !.cycles_per_step_event =
        set_step_events_per_minute(MINIMUM_STEPS_PER_MINUTE)]

\* st_reset, lines 385-386
st_reset_stepper ==
  [ZeroStepper EXCEPT
     !.cycles_per_step_event =
        set_step_events_per_minute(MINIMUM_STEPS_PER_MINUTE)]

\* ------------------------------------------------------------- foreground
\* ids of the blocks in the ring, the one being traced included
QueuedIds ==
  { block_buffer[i].id :
      i \in { j \in 1..BLOCK_BUFFER_SIZE :
                ((j - block_buffer_tail) % BLOCK_BUFFER_SIZE)
                  < ((block_buffer_head - block_buffer_tail)
                       % BLOCK_BUFFER_SIZE) } }

\* mutant: the reset pass leaves a machine that is not alarmed in Init
ResetState_init(state, homing_enable) ==
  IF state = STATE_ALARM \/ (state = STATE_INIT /\ homing_enable)
  THEN STATE_ALARM ELSE STATE_INIT

\* mutant: the power-up lock is left out of the reset pass
ResetState_unlocked(state, homing_enable) ==
  IF state = STATE_ALARM THEN STATE_ALARM ELSE STATE_IDLE

\* mutant: the reset pass ends in Idle whatever the state was
ResetState_idle(state, homing_enable) == STATE_IDLE

\* main(), lines 115-125: with HOMING_INIT_LOCK, power-up (Init) with homing
\* enabled gives Alarm; an alarm is kept; otherwise the system is Idle.
ResetState(state, homing_enable) ==
  LET s0 == IF state = STATE_INIT /\ homing_enable
            THEN STATE_ALARM ELSE state
  IN IF s0 = STATE_ALARM THEN STATE_ALARM ELSE STATE_IDLE

\* main(), lines 85-127: the reset pass of the main loop.
\* mutant: the reset pass clears all system variables, as at power-up
ResetSys_clear(s, auto_start) ==
  [s EXCEPT !.abort = FALSE, !.execute = {},
            !.auto_start = IF auto_start THEN TRUE ELSE @,
            !.position = ZeroPosition]

\* main(), lines 103-106: the reset of the system variables
ResetSys(s, auto_start) ==
  [s EXCEPT !.abort = FALSE, !.execute = {},
            !.auto_start = IF auto_start THEN TRUE ELSE @]

MainReset ==
  /\ UNCHANGED <<pins, timer2_enabled, isr>>
  /\ sys.abort
  /\ fg = "run"
  /\ block_buffer_tail' = block_buffer_head          \* plan_init
  /\ st' = st_reset_stepper                          \* st_reset
  /\ current_block' = NULL
  /\ busy' = FALSE
  /\ LET s1 == ResetState(sys.state, settings.homing_enable)
     IN /\ sys' = [ResetSys(sys, settings.auto_start) EXCEPT !.state = s1]
        /\ hist' = [hist EXCEPT
                      !.fh = FhNext(@, sys.state, s1),
                      !.passes = IF @ = 0 THEN 1 ELSE 2,
                      !.dropped = @ \cup QueuedIds,
                      !.startup = (s1 = STATE_IDLE),
                      !.call_full = FALSE, !.call_discards = 0]
        /\ report' = [report EXCEPT !.uart =
                        IF s1 = STATE_ALARM
                        THEN @ \o report_feedback_message(MESSAGE_ALARM_LOCK)
                        ELSE @]
  /\ UNCHANGED <<settings, out_bits, timer1_enabled, block_buffer,
                 block_buffer_head, fg, pending>>

\* The foreground is between operations and may serve runtime events:
\* the protocol loop, or the wait of a motion line for room in the ring.
Polling == fg \in {"run", "pbl_wait"} /\ ~sys.abort

\* plan_buffer_line takes the slot at the head and writes the step counts
ReserveSlot(buf, head, b, id) ==
  [buf EXCEPT ![head] =
     [@ EXCEPT !.steps_x = b.steps_x, !.steps_y = b.steps_y,
               !.steps_z = b.steps_z, !.direction_bits = b.direction_bits,
               !.step_event_count = b.step_event_count,
               !.id = id, !.complete = FALSE]]

\* A motion line arrives: plan_buffer_line is called with a planned block.
\* With the ring full the caller waits; otherwise the slot is taken at once.
PlanBufferLine(b) ==
  /\ UNCHANGED hw
  /\ fg = "run"
  /\ ~sys.abort
  /\ sys.state \notin {STATE_INIT, STATE_ALARM}
  /\ Len(hist.committed) < MaxBlocks
  /\ IF plan_check_full_buffer(block_buffer_head, block_buffer_tail)
     THEN /\ fg' = "pbl_wait"
          /\ pending' = b
          /\ hist' = [hist EXCEPT !.call_full = TRUE,
                                  !.call_discards = Len(hist.discarded)]
          /\ UNCHANGED block_buffer
     ELSE /\ fg' = "pbl_write"
          /\ pending' = b
          /\ block_buffer' = ReserveSlot(block_buffer, block_buffer_head, b,
                                         Len(hist.committed) + 1)
          /\ UNCHANGED hist
  /\ UNCHANGED <<sys, settings, st, current_block, out_bits, busy,
                 timer1_enabled, block_buffer_head, block_buffer_tail>>

\* plan_buffer_line, waiting: once the ring has room the slot is taken.
PlanReserve ==
  /\ UNCHANGED hw
  /\ fg = "pbl_wait"
  /\ ~sys.abort
  /\ ~plan_check_full_buffer(block_buffer_head, block_buffer_tail)
  /\ block_buffer' = ReserveSlot(block_buffer, block_buffer_head, pending,
                                 Len(hist.committed) + 1)
  /\ fg' = "pbl_write"
  /\ UNCHANGED <<sys, settings, st, current_block, out_bits, busy,
                 timer1_enabled, block_buffer_head, block_buffer_tail,
                 pending, hist>>

\* plan_buffer_line: the rates and the profile are written.
PlanWrite ==
  /\ UNCHANGED hw
  /\ fg = "pbl_write"
  /\ block_buffer' = [block_buffer EXCEPT ![block_buffer_head] =
        [@ EXCEPT !.nominal_rate = pending.nominal_rate,
                  !.initial_rate = pending.initial_rate,
                  !.final_rate = pending.final_rate,
                  !.rate_delta = pending.rate_delta,
                  !.accelerate_until = pending.accelerate_until,
                  !.decelerate_after = pending.decelerate_after,
                  !.complete = TRUE]]
  /\ fg' = "pbl_commit"
  /\ UNCHANGED <<sys, settings, st, current_block, out_bits, busy,
                 timer1_enabled, block_buffer_head, block_buffer_tail,
                 pending, hist>>

\* plan_buffer_line publishes the block by advancing the head; the caller
\* then marks an idle machine as having a queued block.
PlanCommit ==
  /\ UNCHANGED hw
  /\ fg = "pbl_commit"
  /\ block_buffer_head' = next_block_index(block_buffer_head)
  /\ LET s1 == IF sys.state = STATE_IDLE THEN STATE_QUEUED ELSE sys.state
     IN /\ sys' = [sys EXCEPT !.state = s1]
        /\ hist' = [hist EXCEPT
                      !.committed =
                         Append(@, block_buffer[block_buffer_head].id),
                      !.fh = FhNext(@, sys.state, s1),
                      !.call_full = FALSE, !.call_discards = 0]
  /\ fg' = "run"
  /\ pending' = EmptyBlock
  /\ UNCHANGED <<settings, st, current_block, out_bits, busy,
                 timer1_enabled, block_buffer, block_buffer_tail>>

\* Runtime commands from the host: '!' raises feed_hold, '~' cycle_start.
RaiseFeedHold ==
  /\ UNCHANGED hw
  /\ EXEC_FEED_HOLD \notin sys.execute
  /\ hist.holds < MaxHolds
  /\ sys' = [sys EXCEPT !.execute = @ \cup {EXEC_FEED_HOLD}]
  /\ hist' = [hist EXCEPT !.holds = @ + 1]
  /\ UNCHANGED <<settings, st, current_block, out_bits, busy,
                 timer1_enabled, block_buffer, block_buffer_head,
                 block_buffer_tail, fg, pending>>

RaiseCycleStart ==
  /\ UNCHANGED hw
  /\ EXEC_CYCLE_START \notin sys.execute
  /\ sys' = [sys EXCEPT !.execute = @ \cup {EXEC_CYCLE_START}]
  /\ UNCHANGED <<settings, st, current_block, out_bits, busy,
                 timer1_enabled, block_buffer, block_buffer_head,
                 block_buffer_tail, fg, pending, hist>>

\* The polling loop's planner auto-start.
AutoStart ==
  /\ UNCHANGED hw
  /\ Polling
  /\ sys.auto_start
  /\ sys.state = STATE_QUEUED
  /\ block_buffer_head # block_buffer_tail
  /\ EXEC_CYCLE_START \notin sys.execute
  /\ sys' = [sys EXCEPT !.execute = @ \cup {EXEC_CYCLE_START}]
  /\ UNCHANGED <<settings, st, current_block, out_bits, busy,
                 timer1_enabled, block_buffer, block_buffer_head,
                 block_buffer_tail, fg, pending, hist>>

\* protocol_execute_runtime serves feed_hold: st_feed_hold(), bit cleared.
ExecFeedHold ==
  /\ UNCHANGED hw
  /\ Polling
  /\ EXEC_FEED_HOLD \in sys.execute
  /\ LET r == st_feed_hold(sys.state, sys.auto_start) IN
     /\ sys' = [sys EXCEPT !.state = r.state, !.auto_start = r.auto_start,
                           !.execute = bit_false_execute(@, EXEC_FEED_HOLD)]
     /\ hist' = [hist EXCEPT !.fh =
           IF r.state # sys.state /\ current_block # NULL /\ timer1_enabled
           THEN <<sys.state, r.state>>
           ELSE FhNext(@, sys.state, r.state)]
  /\ UNCHANGED <<settings, st, current_block, out_bits, busy,
                 timer1_enabled, block_buffer, block_buffer_head,
                 block_buffer_tail, fg, pending>>

\* protocol_execute_runtime serves cycle_start: st_cycle_start(), bit cleared.
ExecCycleStart ==
  /\ UNCHANGED hw
  /\ Polling
  /\ EXEC_CYCLE_START \in sys.execute
  /\ LET r == st_cycle_start(sys.state, out_bits, timer1_enabled,
                             settings.invert_mask) IN
     /\ sys' = [sys EXCEPT !.state = r.state,
                           !.execute = bit_false_execute(@, EXEC_CYCLE_START)]
     /\ out_bits' = r.out_bits
     /\ timer1_enabled' = r.timer1_enabled
     /\ hist' = [hist EXCEPT
                   !.fh = FhNext(@, sys.state, r.state),
                   !.logical = IF r.state = STATE_CYCLE /\ r.state # sys.state
                               THEN {} ELSE @]
  /\ UNCHANGED <<settings, st, current_block, busy, block_buffer,
                 block_buffer_head, block_buffer_tail, fg, pending>>

\* mutant: the end of a cycle always leaves the machine Queued
st_cycle_reinitialize_state_queued(cb) == STATE_QUEUED

\* st_cycle_reinitialize, lines 506-515: sys.state is Queued with a block
\* in progress, Idle without
st_cycle_reinitialize_state(cb) ==
  IF cb # NULL THEN STATE_QUEUED ELSE STATE_IDLE

\* protocol_execute_runtime serves cycle_stop: st_cycle_reinitialize(), bit
\* cleared.
ExecCycleStop ==
  /\ UNCHANGED hw
  /\ Polling
  /\ EXEC_CYCLE_STOP \in sys.execute
  /\ IF current_block # NULL
     THEN \E prof \in ReplanProfiles(
                 ReinitRemaining(block_buffer[current_block], st)) :
          /\ block_buffer' = [block_buffer EXCEPT ![block_buffer_tail] =
               plan_cycle_reinitialize(@,
                 ReinitRemaining(block_buffer[current_block], st), prof)]
          /\ st' = ReinitStepper(st)
          /\ sys' = [sys EXCEPT
                       !.state = st_cycle_reinitialize_state(current_block),
                       !.execute = bit_false_execute(@, EXEC_CYCLE_STOP)]
          /\ hist' = [hist EXCEPT
                        !.cur_held = TRUE,
                        !.fh = FhNext(@, sys.state,
                                 st_cycle_reinitialize_state(current_block))]
     ELSE /\ sys' = [sys EXCEPT
                       !.state = st_cycle_reinitialize_state(current_block),
                       !.execute = bit_false_execute(@, EXEC_CYCLE_STOP)]
          /\ hist' = [hist EXCEPT
                        !.fh = FhNext(@, sys.state,
                                 st_cycle_reinitialize_state(current_block))]
          /\ UNCHANGED <<block_buffer, st>>
  /\ UNCHANGED <<settings, current_block, out_bits, busy, timer1_enabled,
                 block_buffer_head, block_buffer_tail, fg, pending>>

\* The host sends the soft-reset byte (0x18): the reset event is raised.
RaiseReset ==
  /\ UNCHANGED hw
  /\ EXEC_RESET \notin sys.execute
  /\ ~sys.abort
  /\ hist.resets < MaxResets
  /\ sys' = [sys EXCEPT !.execute = @ \cup {EXEC_RESET}]
  /\ hist' = [hist EXCEPT !.resets = @ + 1]
  /\ UNCHANGED <<settings, st, current_block, out_bits, busy,
                 timer1_enabled, block_buffer, block_buffer_head,
                 block_buffer_tail, fg, pending>>

\* protocol_execute_runtime serves reset: sys.abort is latched. An abort
\* with motion in progress (Cycle or Hold) halts the motion at once: the
\* step timer is disabled and the state is Alarm.
ExecReset ==
  /\ UNCHANGED hw
  /\ Polling
  /\ EXEC_RESET \in sys.execute
  /\ LET moving == sys.state \in {STATE_CYCLE, STATE_HOLD}
         s1 == IF moving THEN STATE_ALARM ELSE sys.state
     IN /\ sys' = [sys EXCEPT !.abort = TRUE, !.state = s1,
                              !.execute = bit_false_execute(@, EXEC_RESET)]
        /\ timer1_enabled' = IF moving THEN FALSE ELSE timer1_enabled
        /\ hist' = [hist EXCEPT !.fh = FhNext(@, sys.state, s1)]
  /\ UNCHANGED <<settings, st, current_block, out_bits, busy, block_buffer,
                 block_buffer_head, block_buffer_tail, fg, pending>>

\* plan_buffer_line, waiting for room: an abort ends the wait and the line
\* is dropped.
PlanBufferAbort ==
  /\ UNCHANGED hw
  /\ fg = "pbl_wait"
  /\ sys.abort
  /\ fg' = "run"
  /\ pending' = EmptyBlock
  /\ hist' = [hist EXCEPT !.call_full = FALSE, !.call_discards = 0]
  /\ UNCHANGED <<sys, settings, st, current_block, out_bits, busy,
                 timer1_enabled, block_buffer, block_buffer_head,
                 block_buffer_tail>>

\* ------------------------------------------------------- the specification
Next ==
  \/ MainReset
  \/ \E b \in BlockSet : PlanBufferLine(b)
  \/ PlanReserve
  \/ PlanWrite
  \/ PlanCommit
  \/ RaiseFeedHold
  \/ RaiseCycleStart
  \/ AutoStart
  \/ ExecFeedHold
  \/ ExecCycleStart
  \/ ExecCycleStop
  \/ timer1_compare_interrupt

Spec == Init /\ [][Next]_vars

\* The program with soft resets from the host.
ResetNext == Next \/ RaiseReset \/ ExecReset \/ PlanBufferAbort

ResetSpec == Init /\ [][ResetNext]_vars

\* report_realtime_status is called from a poll of the foreground: line 309
ReportBegin ==
  /\ Polling
  /\ report.i = 0
  /\ hist.reports < MaxReports
  /\ report' = [report EXCEPT !.i = 1, !.current_position = ZeroPosition]
  /\ hist' = [hist EXCEPT !.reports = @ + 1, !.seen = {sys.position}]
  /\ UNCHANGED <<sys, settings, st, current_block, out_bits, busy,
                 timer1_enabled, block_buffer, block_buffer_head,
                 block_buffer_tail, fg, pending, pins, timer2_enabled, isr>>

\* line 311, memcpy(current_position, sys.position, ...): one axis is read
\* and stored. Interrupts are enabled, the step ISR may run between two
\* axes.
ReportCopy ==
  /\ Copying
  /\ report' = [report EXCEPT
                  !.i = @ + 1,
                  !.current_position[CopyAxis(report.i)] =
                     sys.position[CopyAxis(report.i)]]
  /\ UNCHANGED <<sys, settings, st, current_block, out_bits, busy,
                 timer1_enabled, block_buffer, block_buffer_head,
                 block_buffer_tail, fg, pending, pins, timer2_enabled, isr,
                 hist>>

\* lines 314-343: the copy is printed and the function returns
ReportEnd ==
  /\ report.i = 4
  /\ report' = [report EXCEPT !.i = 0, !.current_position = ZeroPosition]
  /\ hist' = [hist EXCEPT !.seen = {}]
  /\ UNCHANGED <<sys, settings, st, current_block, out_bits, busy,
                 timer1_enabled, block_buffer, block_buffer_head,
                 block_buffer_tail, fg, pending, pins, timer2_enabled, isr>>

\* The program with status reports: while report_realtime_status runs the
\* foreground does nothing else, the step ISR still fires. Its firings
\* while the copy is printed are left out, they change nothing the report
\* holds.
ReportNext ==
  \/ report.i = 0 /\ Next
  \/ Copying /\ timer1_compare_interrupt
  \/ ReportBegin
  \/ ReportCopy
  \/ ReportEnd

ReportSpec == Init /\ [][ReportNext]_vars

\* The protocol answers a line: report_status_message(status_code) prints
\* to the serial port.
ReportStatusMessage(status_code) ==
  /\ report.lines < MaxLines
  /\ report' = [report EXCEPT
                  !.uart = @ \o report_status_message(status_code),
                  !.lines = @ + 1]
  /\ UNCHANGED <<sys, settings, st, current_block, out_bits, busy,
                 timer1_enabled, block_buffer, block_buffer_head,
                 block_buffer_tail, fg, pending, pins, timer2_enabled, isr,
                 hist>>

\* The responses of the protocol to the lines of the host, whatever their
\* status.
StatusNext == \E status_code \in StatusCodes : ReportStatusMessage(status_code)

StatusSpec == Init /\ [][StatusNext]_vars

\* The program running planned profiles of every shape, without feed hold.
CycleNext ==
  \/ MainReset
  \/ \E b \in ProfileSet : PlanBufferLine(b)
  \/ PlanReserve
  \/ PlanWrite
  \/ PlanCommit
  \/ RaiseCycleStart
  \/ AutoStart
  \/ ExecCycleStart
  \/ ExecCycleStop
  \/ timer1_compare_interrupt

CycleSpec == Init /\ [][CycleNext]_vars

\* The program with the two interrupt contexts told apart: the foreground
\* runs only while no handler is in progress, the step timer may fire again
\* before its handler has returned, and the pulse-reset ISR preempts both.
IsrNext ==
  \/ isr = 0 /\ Next
  \/ timer1_fire
  \/ timer1_complete
  \/ timer2_overflow_interrupt

IsrSpec == Init /\ [][IsrNext]_vars

\* The step timer fires for as long as it is enabled, and the foreground
\* thread keeps running: a motion line in progress is written and committed,
\* and protocol_execute_runtime serves a raised cycle_stop at every poll.
Foreground == PlanReserve \/ PlanWrite \/ PlanCommit \/ ExecCycleStop

LiveSpec ==
  /\ Spec
  /\ WF_vars(timer1_compare_interrupt)
  /\ WF_vars(Foreground)

\* ------------------------------------------------------------- properties
Abs(n) == IF n < 0 THEN 0 - n ELSE n

RingEmpty == block_buffer_head = block_buffer_tail

\* The position an uninterrupted execution of blk reaches from start: n step
\* events of the tracer, from the accumulators the pop seeds.
RECURSIVE TraceBlock(_, _, _, _)
TraceBlock(s, blk, position, n) ==
  IF n = 0 THEN position
  ELSE LET b == IsrStep(s, blk, position)
       IN TraceBlock(b.st, blk, b.position, n - 1)

UninterruptedPosition(blk, start) ==
  TraceBlock(IsrPop(NULL, ZeroStepper, STATE_CYCLE, 2, 1,
                    [i \in {1} |-> blk]).st,
             blk, start, blk.step_event_count)

\* C1: whenever the step ISR holds no block (every block it took has been
\* executed to completion), each axis of sys.position equals the sum of the
\* signed step counts of the blocks executed, counted from the power-up
\* position 0.
C1_PositionConservation ==
  current_block = NULL =>
    \A a \in N_AXIS : sys.position[a] = hist.done_sum[a]

\* two blocks executed to completion, the ring drained
C1_Witness ==
  /\ current_block = NULL
  /\ RingEmpty
  /\ Len(hist.discarded) = 2
  /\ sys.position[X_AXIS] # 0

\* C2: when a block that a feed hold stopped and a cycle start resumed has
\* completed, sys.position is on every axis the position an uninterrupted
\* execution of the block as planned reaches from where the block began.
C2_FeedHoldResume ==
  (current_block = NULL /\ hist.cur_held) =>
    sys.position = UninterruptedPosition(hist.cur_orig, hist.cur_start)

\* a held and resumed block has completed
C2_Witness ==
  /\ current_block = NULL
  /\ hist.cur_held
  /\ Len(hist.discarded) >= 1
  /\ sys.position # hist.cur_start

\* C3: the step ISR never obtained a block that was not fully written, and
\* it obtained no block twice.
C3_RingSPSC ==
  /\ ~hist.partial
  /\ \A i, j \in 1..Len(hist.popped) :
       i # j => hist.popped[i] # hist.popped[j]

\* the step ISR is executing a block while the producer has a slot half
\* written
C3_Witness ==
  /\ fg = "pbl_write"
  /\ ~block_buffer[block_buffer_head].complete
  /\ timer1_enabled
  /\ current_block # NULL
  /\ hist.cur_events >= 1

\* C4: the blocks the step ISR takes are the committed blocks in commit
\* order; the block it executes is the one at the ring tail; and it takes a
\* block only when every block taken before has been discarded.
IsPrefix(s, q) == Len(s) <= Len(q) /\ \A i \in 1..Len(s) : s[i] = q[i]

C4_Fifo ==
  /\ IsPrefix(hist.popped, hist.committed)
  /\ IsPrefix(hist.discarded, hist.popped)
  /\ Len(hist.popped) =
       Len(hist.discarded) + (IF current_block = NULL THEN 0 ELSE 1)
  /\ current_block # NULL => current_block = block_buffer_tail

\* the second committed block is being executed after the first was discarded
C4_Witness ==
  /\ Len(hist.discarded) = 1
  /\ Len(hist.popped) = 2
  /\ current_block # NULL

\* C5: after every step event e of a block with N step events, every axis
\* with s steps has emitted k steps with |e*s - k*N| <= N.
C5_BresenhamBound ==
  hist.cur_events \in 1..hist.cur_orig.step_event_count =>
    \A a \in N_AXIS :
      Abs(hist.cur_events * Steps(hist.cur_orig, a)
          - Abs(sys.position[a] - hist.cur_start[a])
              * hist.cur_orig.step_event_count)
        <= hist.cur_orig.step_event_count

\* mid-block, a non-dominant axis has emitted some but not all of its steps
C5_Witness ==
  /\ current_block # NULL
  /\ hist.cur_events = 3
  /\ Steps(hist.cur_orig, Y_AXIS) = 2
  /\ Abs(sys.position[Y_AXIS] - hist.cur_start[Y_AXIS]) = 1

\* C6: acceleration cap. While a block executes, the adjusted rate after an
\* acceleration tick differs from the adjusted rate after the tick before it
\* by at most the block's rate_delta (the half-step reductions of the
\* deceleration tail included, being at most rate_delta themselves).
C6_AccelerationCap ==
  hist.ticks = 2 =>
    Abs(hist.tick_rate - hist.prev_tick_rate) <= hist.cur_orig.rate_delta

\* C7: feed hold then resume. From a feed hold taken in Cycle with a block
\* executing, through the cycle_stop served by st_cycle_reinitialize with the
\* block still in progress, to the cycle start, sys.state takes the values
\* Cycle, Hold, Queued, Cycle in this order and no other value in between.
FeedHoldSequence == <<STATE_CYCLE, STATE_HOLD, STATE_QUEUED, STATE_CYCLE>>

HoldRunning == sys.state = STATE_HOLD /\ timer1_enabled

HoldStopped ==
  /\ sys.state = STATE_HOLD
  /\ ~timer1_enabled
  /\ EXEC_CYCLE_STOP \in sys.execute

HoldLeft ==
  /\ sys.state = STATE_HOLD
  /\ sys'.state # STATE_HOLD
  => /\ HoldStopped
     /\ EXEC_CYCLE_STOP \notin sys'.execute
     /\ sys'.state = IF current_block # NULL THEN STATE_QUEUED
                      ELSE STATE_IDLE

C8_FeedHoldCompletes ==
  /\ HoldRunning ~> HoldStopped
  /\ HoldStopped ~> (sys.state \in {STATE_QUEUED, STATE_IDLE})
  /\ [][HoldLeft]_vars


C8_Witness ==
  /\ hist.fh = <<STATE_CYCLE, STATE_HOLD, STATE_QUEUED>>
  /\ current_block # NULL
  /\ ~timer1_enabled
  /\ EXEC_CYCLE_STOP \notin sys.execute

\* C9: ring-full backpressure. A plan_buffer_line that found the ring full
\* takes a slot only after the step ISR has discarded a block since the
\* call; meanwhile it only waits, and the ring holds exactly the committed
\* blocks not yet discarded, in order and fully written: no queued block is
\* overwritten.
QueuedCount ==
  (block_buffer_head - block_buffer_tail + BLOCK_BUFFER_SIZE)
    % BLOCK_BUFFER_SIZE

QueuedSlot(k) ==
  ((block_buffer_tail - 1 + (k - 1)) % BLOCK_BUFFER_SIZE) + 1

C9_RingFullBackpressure ==
  /\ hist.call_full /\ fg \in {"pbl_write", "pbl_commit"}
       => Len(hist.discarded) > hist.call_discards
  /\ hist.call_full /\ fg = "pbl_wait"
         /\ Len(hist.discarded) = hist.call_discards
       => plan_check_full_buffer(block_buffer_head, block_buffer_tail)
  /\ QueuedCount = Len(hist.committed) - Len(hist.discarded)
  /\ \A k \in 1..QueuedCount :
       /\ block_buffer[QueuedSlot(k)].id
            = hist.committed[Len(hist.discarded) + k]
       /\ block_buffer[QueuedSlot(k)].complete

C9_Witness ==
  /\ hist.call_full
  /\ fg = "pbl_commit"
  /\ Len(hist.discarded) = hist.call_discards + 1
  /\ QueuedCount = BLOCK_BUFFER_SIZE - 2

\* C10, as the spec states it: a cycle start served while sys.state is Idle
\* or Queued and the ring is not empty moves sys.state to Cycle and enables
\* the step timer.
C10_CycleStartIdleOrQueued ==
  [][ExecCycleStart /\ sys.state \in {STATE_IDLE, STATE_QUEUED}
       /\ ~RingEmpty
     => sys'.state = STATE_CYCLE /\ timer1_enabled']_vars

\* C10, as the code has it: a cycle start served while sys.state is Queued
\* moves sys.state to Cycle and enables the step timer; served in any other
\* state, Idle included, it changes neither sys.state nor the step timer.
C10_CycleStartQueuedOnly ==
  [][ExecCycleStart
     => IF sys.state = STATE_QUEUED
        THEN sys'.state = STATE_CYCLE /\ timer1_enabled'
        ELSE sys'.state = sys.state
               /\ timer1_enabled' = timer1_enabled]_vars

C10_Witness ==
  /\ sys.state = STATE_CYCLE
  /\ timer1_enabled
  /\ current_block = NULL
  /\ ~RingEmpty
  /\ hist.popped = <<>>

\* C11: st_feed_hold moves sys.state to Hold only from Cycle, and then also
\* clears auto_start; in every other state it changes neither sys.state nor
\* auto_start. Once cleared, auto_start is set again only by the reset pass
\* of the main loop.
C11_FeedHoldFrame ==
  /\ [][ExecFeedHold
         => IF sys.state = STATE_CYCLE
            THEN sys'.state = STATE_HOLD /\ ~sys'.auto_start
            ELSE sys'.state = sys.state
                   /\ sys'.auto_start = sys.auto_start]_vars
  /\ [][~sys.auto_start /\ sys'.auto_start => MainReset]_vars

C11_Witness ==
  /\ sys.state = STATE_HOLD
  /\ settings.auto_start
  /\ ~sys.auto_start
  /\ hist.passes = 1

\* C12: power-up. The first pass of the main loop finds sys.state Init with
\* abort latched and leaves Alarm when homing is enabled and Idle otherwise;
\* the startup script is run only in the Idle case.
C12_PowerUp ==
  [][MainReset /\ hist.passes = 0
     => /\ sys.state = STATE_INIT
        /\ sys.abort
        /\ sys'.state = IF settings.homing_enable THEN STATE_ALARM
                         ELSE STATE_IDLE
        /\ hist'.startup = ~settings.homing_enable]_vars

C12_Witness ==
  /\ hist.passes = 1
  /\ settings.homing_enable
  /\ sys.state = STATE_ALARM
  /\ ~hist.startup
  /\ ~sys.abort

\* C13, as the spec states it: on a reset/abort sys.state becomes Init and
\* the core re-initializes: the reset pass that serves an abort starts or
\* ends with sys.state Init.
C13_ResetToInit ==
  [][MainReset /\ hist.passes > 0
     => sys.state = STATE_INIT \/ sys'.state = STATE_INIT]_vars

\* C13, as the code has it: sys.state is Init only before the first pass of
\* the main loop. The pass that serves an abort re-initializes the ring and
\* the stepper, clears abort and execute, keeps sys.position, keeps an
\* alarm and otherwise leaves sys.state Idle.
C13_ResetReinitializes ==
  /\ [](hist.passes > 0 => sys.state # STATE_INIT)
  /\ [][MainReset /\ hist.passes > 0
         => /\ sys.abort
            /\ sys'.state = IF sys.state = STATE_ALARM THEN STATE_ALARM
                             ELSE STATE_IDLE
            /\ block_buffer_head' = block_buffer_tail'
            /\ current_block' = NULL
            /\ st' = st_reset_stepper
            /\ ~sys'.abort
            /\ sys'.execute = {}
            /\ sys'.position = sys.position]_vars

C13_Witness ==
  /\ hist.passes = 2
  /\ sys.state = STATE_IDLE
  /\ hist.dropped # {}
  /\ hist.startup

\* C14: cancellation. The reset pass that serves an abort leaves no current
\* block, the Bresenham and trapezoid fields of the stepper cleared, busy
\* and abort false and execute empty; afterwards the step ISR never holds a
\* block the pass dropped, so no such block moves sys.position or is given
\* a deceleration ramp.
StepperCleared(s) ==
  /\ s.counter_x = 0 /\ s.counter_y = 0 /\ s.counter_z = 0
  /\ s.event_count = 0 /\ s.step_events_completed = 0
  /\ s.trapezoid_tick_cycle_counter = 0
  /\ s.trapezoid_adjusted_rate = 0 /\ s.min_safe_rate = 0

C14_Cancellation ==
  /\ [][MainReset
         => /\ current_block' = NULL
            /\ StepperCleared(st')
            /\ ~busy'
            /\ ~sys'.abort
            /\ sys'.execute = {}]_vars
  /\ [](current_block # NULL
           => block_buffer[current_block].id \notin hist.dropped)
  /\ [][sys'.position # sys.position \/ st' # st
         => MainReset \/ hist'.cur_orig.id \notin hist'.dropped]_vars

C14_Witness ==
  /\ hist.passes = 2
  /\ current_block = NULL
  /\ hist.cur_orig.id \in hist.dropped
  /\ hist.cur_events > 0
  /\ hist.cur_events < hist.cur_orig.step_event_count
  /\ ~timer1_enabled

\* C15, as the spec states it: the block the step ISR is executing (the
\* ring tail, held as current_block) is never modified by the planner or
\* any other foreground operation.
C15_CurrentBlockNeverModified ==
  [][current_block # NULL
     => block_buffer'[current_block] = block_buffer[current_block]]_vars

\* C15, as the code has it: the one modification of the block held by the
\* step ISR is the re-planning st_cycle_reinitialize asks for at the end of
\* a feed hold, with the step timer disabled and sys.state Hold; it changes
\* the profile and the remaining step events, never the step counts, the
\* directions or any other block.
C15_CurrentBlockModifiedOnlyHeld ==
  [][current_block # NULL
       /\ block_buffer'[current_block] # block_buffer[current_block]
     => /\ ExecCycleStop
        /\ ~timer1_enabled
        /\ sys.state = STATE_HOLD
        /\ current_block = block_buffer_tail
        /\ \A a \in N_AXIS :
             Steps(block_buffer'[current_block], a)
               = Steps(block_buffer[current_block], a)
        /\ block_buffer'[current_block].direction_bits
             = block_buffer[current_block].direction_bits
        /\ block_buffer'[current_block].step_event_count
             = ReinitRemaining(block_buffer[current_block], st)
        /\ \A i \in 1..BLOCK_BUFFER_SIZE :
             i # current_block => block_buffer'[i] = block_buffer[i]]_vars

C15_Witness ==
  /\ current_block # NULL
  /\ sys.state = STATE_QUEUED
  /\ hist.cur_held
  /\ block_buffer[current_block].step_event_count
       < hist.cur_orig.step_event_count
  /\ block_buffer[current_block].initial_rate = 0

\* C16: no ISR writes sys.state. On every path of the step ISR and of the
\* pulse-reset ISR sys.state (like abort and auto_start) is left as it was;
\* of sys.execute the ISRs only raise bits.
InterruptStep ==
  \/ timer1_compare_interrupt
  \/ timer1_fire
  \/ timer1_complete
  \/ timer2_overflow_interrupt

C16_IsrLeavesState ==
  [][InterruptStep
     => /\ sys'.state = sys.state
        /\ sys'.abort = sys.abort
        /\ sys'.auto_start = sys.auto_start
        /\ sys.execute \subseteq sys'.execute]_vars

C16_Witness ==
  /\ sys.state = STATE_HOLD
  /\ ~timer1_enabled
  /\ EXEC_CYCLE_STOP \in sys.execute
  /\ current_block # NULL
  /\ isr = 0
  /\ ~timer2_enabled
  /\ pins \cap STEP_MASK = settings.invert_mask \cap STEP_MASK

\* C20: reentrancy guard. A firing of the step timer while an invocation of
\* the handler is in progress returns at once: it writes no pin, pops no
\* block, traces no step and leaves sys.position and the stepper runtime as
\* they were; handlers never nest, and busy is false whenever no invocation
\* is in progress.
C20_ReentrancyGuard ==
  /\ [][timer1_fire /\ isr > 0
         => /\ UNCHANGED <<pins, timer2_enabled, current_block, st,
                          out_bits, busy, isr, block_buffer_tail,
                          timer1_enabled>>
            /\ sys' = sys]_vars
  /\ [](isr <= 1)
  /\ [](isr = 0 => ~busy)
  /\ [](isr = 1 => busy)

C20_Witness ==
  /\ hist.turned_away
  /\ isr = 1
  /\ busy
  /\ current_block # NULL

\* C17: current_block and the stepper runtime belong to the step ISR. The
\* only foreground operations that read or write them are
\* st_cycle_reinitialize and st_reset, and they run only while the step
\* timer is disabled, so the step ISR cannot fire during them.
C17_StepperOwnership ==
  /\ [][st' # st \/ current_block' # current_block
         => timer1_compare_interrupt \/ ExecCycleStop \/ MainReset]_vars
  /\ [][ExecCycleStop \/ MainReset => ~timer1_enabled /\ isr = 0]_vars

C17_Witness ==
  /\ hist.passes = 2
  /\ hist.cur_held
  /\ hist.cur_events > 0
  /\ current_block = NULL
  /\ StepperCleared(st)

\* C18: the three axis values report_realtime_status has copied are the
\* values sys.position held at one single instant between the start and the
\* end of the copy.
C18_ConsistentSnapshot ==
  report.i = 4 => report.current_position \in hist.seen

C21_IsrNeverSuspends == ~hist.isr_delay

\* A firing of the step timer now executes a step event: a block is in
\* progress or the ring holds one to pop.
StepEventDue ==
  \/ current_block # NULL
  \/ plan_get_current_block(block_buffer_head, block_buffer_tail) # NULL

\* st.step_events_completed after a step event: counted from 0 when the
\* firing pops a new block
StepEventCounted ==
  st'.step_events_completed
    = (IF current_block = NULL THEN 0 ELSE st.step_events_completed) + 1

\* C22 (as stated): step_events_completed increases by exactly 1 at every
\* step event and is set back to 0 only by the pop of a new block from the
\* ring.
C22_StepEventsResetOnlyOnPop ==
  [][/\ (timer1_compare_interrupt /\ StepEventDue) => StepEventCounted
     /\ (st'.step_events_completed # st.step_events_completed)
          => (timer1_compare_interrupt /\ StepEventDue)]_vars

\* C22 (amended): step_events_completed increases by exactly 1 at every
\* step event; it is set back to 0 when a new block is popped from the
\* ring, when st_cycle_reinitialize re-plans the block a feed hold has
\* stopped (the same block stays current, the step timer is disabled), and
\* when st_reset clears the stepper; nothing else changes it.
C22_StepEventsResetOnPopReinitReset ==
  [][/\ (timer1_compare_interrupt /\ StepEventDue) => StepEventCounted
     /\ (st'.step_events_completed # st.step_events_completed)
          => \/ timer1_compare_interrupt /\ StepEventDue
             \/ /\ ExecCycleStop
                /\ current_block # NULL
                /\ current_block' = current_block
                /\ ~timer1_enabled
                /\ st'.step_events_completed = 0
             \/ /\ MainReset
                /\ st'.step_events_completed = 0]_vars

C22_Witness ==
  /\ sys.state = STATE_QUEUED
  /\ current_block # NULL
  /\ hist.cur_held
  /\ hist.cur_events > 1
  /\ st.step_events_completed = 0
  /\ st.event_count = hist.cur_orig.step_event_count

\* the step and direction lines of the stepping port
StepDirLines(port) == port \cap (STEP_MASK \cup DIRECTION_MASK)

\* a firing of the step timer that gets past the busy latch
StepIsrEntry ==
  \/ timer1_compare_interrupt
  \/ timer1_fire /\ ~IsrGuard(busy)

\* C23: step and direction outputs obey invert_mask. What the step ISR
\* drives onto the step and direction lines is the logical bits computed
\* last (none after a wake-up) XOR invert_mask; what the pulse-reset ISR
\* drives onto the step lines is no step XOR invert_mask, the direction
\* lines kept; nothing else drives them.
C23_OutputsObeyInvertMask ==
  [][/\ StepIsrEntry
          => StepDirLines(pins')
               = StepDirLines(BitXor(hist.logical, settings.invert_mask))
     /\ timer2_overflow_interrupt
          => /\ pins' \cap STEP_MASK
                  = BitXor({}, settings.invert_mask) \cap STEP_MASK
             /\ pins' \cap DIRECTION_MASK = pins \cap DIRECTION_MASK
     /\ (pins' # pins)
          => (StepIsrEntry \/ timer2_overflow_interrupt)]_vars

C23_Witness ==
  /\ settings.invert_mask # {}
  /\ hist.cur_held
  /\ sys.state = STATE_CYCLE
  /\ isr > 0
  /\ hist.logical \cap STEP_MASK # {}
  /\ StepDirLines(pins)
       = StepDirLines(BitXor(hist.logical, settings.invert_mask))

\* the texts printed by the step from report.uart to report'.uart
Printed ==
  SubSeq(report'.uart, Len(report.uart) + 1, Len(report'.uart))

\* the line ends among the texts of out
LineEnds(out) == {k \in 1..Len(out) : out[k] = CRLF}

\* C24: report_status_message emits exactly one response line per call:
\* ok and the line end for the status code 0, otherwise "error: ", the
\* message text of the status code (one text, its own for each code that
\* has one) and the line end; the line end is printed once, last.
C24_OneResponseLine ==
  [][\A c \in StatusCodes :
       ReportStatusMessage(c)
         => /\ report'.uart = report.uart \o Printed
            /\ LineEnds(Printed) = {Len(Printed)}
            /\ (c = STATUS_OK) => (Printed = <<"ok", CRLF>>)
            /\ (c # STATUS_OK) => (Printed[1] = "error: ")
            /\ (c \notin {STATUS_OK, STATUS_UNLISTED})
                 => /\ Len(Printed) = 3
                    /\ Printed[2] \notin {"ok", "error: ", CRLF}
                    /\ \A d \in StatusCodes \ {c} :
                         report_status_message(d) # Printed
            /\ (c = STATUS_UNLISTED) => (Printed = <<"error: ", CRLF>>)]_vars

C24_Witness ==
  /\ report.lines = 2
  /\ report.uart = <<"ok", CRLF, "error: ", "Alarm lock", CRLF>>

\* the block a firing of the step timer works on: the current block, or
\* the one at the tail of the ring when none is current
BlockInStep ==
  block_buffer[IF current_block # NULL THEN current_block
               ELSE block_buffer_tail]

\* the firing leaves its block with step events to go and is an
\* acceleration tick
HoldTick ==
  /\ current_block' # NULL
  /\ iterate_trapezoid_cycle_counter(st).fired

\* the bresenham counters are as the step event of this firing left them
CountersAsStepped ==
  LET p == IsrPop(current_block, st, sys.state, block_buffer_head,
                  block_buffer_tail, block_buffer)
      b == IsrStep(p.st, BlockInStep, sys.position)
  IN /\ st'.counter_x = b.st.counter_x
     /\ st'.counter_y = b.st.counter_y
     /\ st'.counter_z = b.st.counter_z
     /\ st'.event_count = p.st.event_count

\* C25: the feed-hold deceleration rule. A firing of the step ISR in state
\* Hold that executes a step event: (1) when it is an acceleration tick
\* with adjusted_rate <= rate_delta, disables the step timer and raises
\* cycle_stop, keeps the block current and leaves the rate, the bresenham
\* counters and event_count as the step event left them; (2) when it is a
\* tick with a larger rate, subtracts exactly rate_delta and installs the
\* new rate, wherever the block stands relative to accelerate_until and
\* decelerate_after; (3) when it is no tick, leaves the rate unchanged, a
\* new block popped or not; (4) only accumulates the tick counter, never
\* re-initializes it.
C25_FeedHoldDeceleration ==
  [][timer1_compare_interrupt /\ sys.state = STATE_HOLD /\ StepEventDue
     => /\ (HoldTick /\ st.trapezoid_adjusted_rate <= BlockInStep.rate_delta)
             => /\ ~timer1_enabled'
                /\ EXEC_CYCLE_STOP \in sys'.execute
                /\ current_block' # NULL
                /\ block_buffer_tail' = block_buffer_tail
                /\ st'.trapezoid_adjusted_rate = st.trapezoid_adjusted_rate
                /\ CountersAsStepped
        /\ (HoldTick /\ st.trapezoid_adjusted_rate > BlockInStep.rate_delta)
             => /\ st'.trapezoid_adjusted_rate
                     = st.trapezoid_adjusted_rate - BlockInStep.rate_delta
                /\ st'.cycles_per_step_event
                     = set_step_events_per_minute(st'.trapezoid_adjusted_rate)
                /\ timer1_enabled'
                /\ sys'.execute = sys.execute
        /\ ~HoldTick
             => /\ st'.trapezoid_adjusted_rate = st.trapezoid_adjusted_rate
                /\ st'.cycles_per_step_event = st.cycles_per_step_event
                /\ timer1_enabled'
        /\ st'.trapezoid_tick_cycle_counter
             = IF current_block' # NULL
               THEN iterate_trapezoid_cycle_counter(st).st
                      .trapezoid_tick_cycle_counter
               ELSE st.trapezoid_tick_cycle_counter]_vars

C25_Witness ==
  /\ sys.state = STATE_HOLD
  /\ ~timer1_enabled
  /\ EXEC_CYCLE_STOP \in sys.execute
  /\ current_block # NULL
  /\ hist.ticks > 0
  /\ st.trapezoid_adjusted_rate <= block_buffer[current_block].rate_delta
  /\ st.step_events_completed
       < block_buffer[current_block].accelerate_until

\* the firing leaves its block with step events to go, in the deceleration
\* part and past its first step event, and is an acceleration tick
DecelerationTick ==
  LET p == IsrPop(current_block, st, sys.state, block_buffer_head,
                  block_buffer_tail, block_buffer)
  IN /\ current_block' # NULL
     /\ st'.step_events_completed >= BlockInStep.accelerate_until
     /\ st'.step_events_completed > BlockInStep.decelerate_after
     /\ iterate_trapezoid_cycle_counter(p.st).fired

\* C26: rate bounds. After every step event of a block with initial_rate
\* and final_rate at most nominal_rate, executed in state Cycle,
\* trapezoid_adjusted_rate is at most nominal_rate; it equals nominal_rate
\* when the block stands in its cruise phase (accelerate_until <=
\* step_events_completed < decelerate_after); and after a deceleration tick
\* it is at least final_rate.
C26_RateBounds ==
  [][(/\ timer1_compare_interrupt
      /\ sys.state = STATE_CYCLE
      /\ StepEventDue
      /\ BlockInStep.initial_rate <= BlockInStep.nominal_rate
      /\ BlockInStep.final_rate <= BlockInStep.nominal_rate)
     => /\ st'.trapezoid_adjusted_rate <= BlockInStep.nominal_rate
        /\ (/\ BlockInStep.accelerate_until <= st'.step_events_completed
            /\ st'.step_events_completed < BlockInStep.decelerate_after)
             => st'.trapezoid_adjusted_rate = BlockInStep.nominal_rate
        /\ DecelerationTick
             => st'.trapezoid_adjusted_rate >= BlockInStep.final_rate]_vars

\* an acceleration tick has brought the rate of AccelBlock to its nominal
\* rate before accelerate_until
C26_Witness ==
  /\ sys.state = STATE_CYCLE
  /\ current_block # NULL
  /\ hist.cur_orig.nominal_rate > hist.cur_orig.initial_rate
  /\ hist.ticks = 2
  /\ st.step_events_completed < hist.cur_orig.accelerate_until
  /\ st.trapezoid_adjusted_rate = hist.cur_orig.nominal_rate
  /\ hist.prev_tick_rate + hist.cur_orig.rate_delta
       > hist.cur_orig.nominal_rate

\* F_CPU * 60 / steps_per_minute in integer division; F_CPU * 60 is above
\* 2^32, so the quotient is taken in two parts
ExactCycles(steps_per_minute) ==
  (F_CPU \div steps_per_minute) * 60
    + ((F_CPU % steps_per_minute) * 60) \div steps_per_minute

\* C27: whenever trapezoid_adjusted_rate changes, the installed
\* cycles_per_step_event is F_CPU * 60 / adjusted_rate in integer division,
\* with a rate below MINIMUM_STEPS_PER_MINUTE taken as
\* MINIMUM_STEPS_PER_MINUTE, and it is not 0.
C27_InstalledCycles ==
  [][st'.trapezoid_adjusted_rate # st.trapezoid_adjusted_rate
     => /\ st'.cycles_per_step_event
             = ExactCycles(IF st'.trapezoid_adjusted_rate
                                < MINIMUM_STEPS_PER_MINUTE
                           THEN MINIMUM_STEPS_PER_MINUTE
                           ELSE st'.trapezoid_adjusted_rate)
        /\ st'.cycles_per_step_event # 0]_vars

\* C28: ring drained. A firing of the step ISR with no current block and
\* an empty ring disables the step timer and raises cycle_stop, and changes
\* neither sys.position nor the stepper runtime nor the ring; when the
\* foreground then serves cycle_stop with no block in progress,
\* st_cycle_reinitialize leaves sys.state Idle and the stepper runtime as
\* it was.
C28_RingDrained ==
  [][/\ (timer1_compare_interrupt /\ ~StepEventDue)
          => /\ ~timer1_enabled'
             /\ EXEC_CYCLE_STOP \in sys'.execute
             /\ sys'.position = sys.position
             /\ sys'.state = sys.state
             /\ st' = st
             /\ current_block' = NULL
             /\ block_buffer_tail' = block_buffer_tail
     /\ (ExecCycleStop /\ current_block = NULL)
          => /\ sys'.state = STATE_IDLE
             /\ EXEC_CYCLE_STOP \notin sys'.execute
             /\ st' = st
             /\ block_buffer' = block_buffer]_vars

C28_Witness ==
  /\ sys.state = STATE_IDLE
  /\ hist.passes = 1
  /\ Len(hist.discarded) = Len(hist.committed)
  /\ Len(hist.discarded) >= 1
  /\ current_block = NULL
  /\ ~timer1_enabled
  /\ EXEC_CYCLE_STOP \notin sys.execute
  /\ sys.position = hist.done_sum

\* C29: sys.position survives reset. The service of a soft reset and the
\* reset pass of the main loop (plan_init, st_reset,
\* sys_sync_current_position, the reset of the system variables) leave all
\* three axes of sys.position as they were; only step events of the step
\* ISR change sys.position, so it is zero only as cleared at power-up or as
\* stepped back to zero.
C29_PositionSurvivesReset ==
  [][/\ (MainReset \/ ExecReset \/ PlanBufferAbort)
          => \A a \in N_AXIS : sys'.position[a] = sys.position[a]
     /\ (sys'.position # sys.position)
          => (timer1_compare_interrupt /\ StepEventDue)]_vars

C29_Witness ==
  /\ hist.passes = 2
  /\ ~sys.abort
  /\ sys.state = STATE_ALARM
  /\ \E a \in N_AXIS : sys.position[a] # 0
  /\ sys.position # hist.done_sum

\* C30: an alarm survives the reset pass: from Alarm the pass ends in Alarm,
\* prints the alarm-lock feedback message and does not run the startup
\* script; from Init with homing enabled it ends in Alarm too; from every
\* other state it ends in Idle and runs the startup script.
C30_AlarmSurvivesReset ==
  [][MainReset =>
       IF sys.state = STATE_ALARM
       THEN /\ sys'.state = STATE_ALARM
            /\ Printed = <<"[", "'$H'|'$X' to unlock", "]", CRLF>>
            /\ ~hist'.startup
       ELSE IF sys.state = STATE_INIT /\ settings.homing_enable
       THEN sys'.state = STATE_ALARM
       ELSE /\ sys'.state = STATE_IDLE
            /\ Printed = <<>>
            /\ hist'.startup]_vars

\* a motion was aborted (Alarm without the power-up lock), the reset pass
\* has run again, the system is still alarmed and the message was printed
C30_Witness ==
  /\ hist.passes = 2
  /\ ~settings.homing_enable
  /\ ~sys.abort
  /\ sys.state = STATE_ALARM
  /\ ~hist.startup
  /\ report.uart = report_feedback_message(MESSAGE_ALARM_LOCK)

\* Motion has come to rest with the ring drained: the step timer is off,
\* no block is current and the end of the cycle has been served
AtRest ==
  /\ sys.state = STATE_IDLE
  /\ ~timer1_enabled
  /\ current_block = NULL
  /\ RingEmpty

\* C31: pulses match position: once motion has come to rest with the ring
\* drained, every axis has had as many step pulses asserted on its step
\* line as +/-1 updates applied to its entry of sys.position.
C31_PulsesMatchPosition ==
  AtRest => \A a \in N_AXIS : hist.pulses[a] = hist.updates[a]

\* C32: the step timer runs only during a cycle: whenever the step timer is
\* enabled sys.state is Cycle or Hold; in Idle, Queued, Alarm and Init the
\* step timer is disabled.
C32_TimerOnlyInCycle ==
  timer1_enabled => sys.state \in {STATE_CYCLE, STATE_HOLD}

\* after a soft reset and a second reset pass, motion runs again and a feed
\* hold is decelerating with the step timer enabled
C32_Witness ==
  /\ hist.passes = 2
  /\ timer1_enabled
  /\ sys.state = STATE_HOLD
  /\ current_block # NULL

\* C33: the acceleration tick counter stays bounded: trapezoid_tick_cycle_counter,
\* as an unsigned value, never exceeds CYCLES_PER_ACCELERATION_TICK, after
\* every call of iterate_trapezoid_cycle_counter and so at the triangle
\* reset CYCLES_PER_ACCELERATION_TICK - counter as well.
C33_TickCounterBounded ==
  ~UGreater(st.trapezoid_tick_cycle_counter, CYCLES_PER_ACCELERATION_TICK)

====
